---- MODULE Spec2Model ----
(***************************************************************************)
(* Model of the recurring-date picker (src/jest.config.js).                *)
(*                                                                         *)
(* Representation choices                                                  *)
(*  - A date string "YYYY-MM-DD" is the number YYYYMMDD (four-digit years), *)
(*    so that the lexicographic order of the strings is the numeric order  *)
(*    of their representations.  The empty string / null is NoDate.        *)
(*  - A JavaScript Date is a record [day, ms]: the local calendar day as a *)
(*    count of days since 1970-01-01 and the milliseconds into that day,   *)
(*    both read on the host's local clock.                                 *)
(*  - tz is the host's UTC offset in minutes (local = UTC + tz).  Date     *)
(*    parsing and the getters/setters work in local time; toISOString      *)
(*    works in UTC.                                                        *)
(*  - The number NaN is the value NaN below; an Invalid Date is a Date     *)
(*    whose day is NaN.  An exception is the value RangeError in the place *)
(*    of the string the throwing call would have returned.                 *)
(***************************************************************************)
EXTENDS Integers, Sequences, FiniteSets, TLC

VARIABLES
    settings,      \* the RecurringSettings value passed to calculateRecurringDates
    tz,            \* host UTC offset in minutes
    pc,            \* "start" | "loop" | "done" | "threw"
    current,       \* the cursor Date
    finalEndDate,  \* the end-of-day Date the loop compares against
    iterations,    \* loop counter
    dates,         \* the Set<string> in insertion order
    result,        \* the returned array
    \* App
    showPicker,         \* the picker modal is mounted
    isEditing,          \* the picker edits the last schedule
    savedData,          \* <<>> (null) or <<SavedData>>
    events,             \* Events: date string -> [typeId, time]
    customEventTypes,   \* EventType[]: sequence of [id, title]
    activeReminder,     \* <<>> (null) or <<ActiveReminder>>
    triggeredReminders, \* Set<string> of reminder ids
    \* RecurringDatePicker and its children, while mounted
    picker,             \* <<>> or <<[settings, draftEvents, eventMode, masterEvent,
                        \*            selectedDate, individualTime]>>
    \* environment and observation
    now,                \* the host clock: a Date
    idClock,            \* the reading of Date.now() at the latest addEventType
    data,               \* <<>> or <<the SavedData last handed to onSave>>
    saves,              \* number of saves so far
    fired,              \* the reminders the poller has activated, in order
    polled              \* the poller has run since the clock last moved

coreVars == <<settings, pc, current, finalEndDate, iterations, dates, result>>
appVars == <<showPicker, isEditing, savedData, events, customEventTypes,
             activeReminder, triggeredReminders, picker, now, idClock, data,
             saves, fired, polled>>
vars == <<coreVars, tz, appVars>>

-----------------------------------------------------------------------------
(* Bounds of the model *)

MaxInterval == 3
MaxExtra == 8

(* Program constants *)

maxIterations == 2000
NoDate == 0
MsPerDay == 86400000
EndOfDayMs == 86399999
HorizonYears == 5
NaN == -1000000000
RangeError == -1

-----------------------------------------------------------------------------
(* The calendar of the JavaScript Date object (proleptic Gregorian).        *)
(* Months are 0-based as in JavaScript.                                     *)

\* Days since 1970-01-01 of year y, month m (0..11), day-of-month d (1-based).
DaysFromCivil(y, m, d) ==
    LET mm  == m + 1
        yy  == IF mm <= 2 THEN y - 1 ELSE y
        era == yy \div 400
        yoe == yy - era * 400
        mp  == IF mm > 2 THEN mm - 3 ELSE mm + 9
        doy == (153 * mp + 2) \div 5 + d - 1
        doe == yoe * 365 + yoe \div 4 - yoe \div 100 + doy
    IN  era * 146097 + doe - 719468

\* The calendar date [y, m (0..11), d] of a day count.
CivilFromDays(z0) ==
    LET z   == z0 + 719468
        era == z \div 146097
        doe == z - era * 146097
        yoe == (doe - doe \div 1460 + doe \div 36524 - doe \div 146096) \div 365
        doy == doe - (365 * yoe + yoe \div 4 - yoe \div 100)
        mp  == (5 * doy + 2) \div 153
        d   == doy - (153 * mp + 2) \div 5 + 1
        mm  == IF mp < 10 THEN mp + 3 ELSE mp - 9
        y   == yoe + era * 400 + (IF mm <= 2 THEN 1 ELSE 0)
    IN  [y |-> y, m |-> mm - 1, d |-> d]

\* a + b and a * b on numbers: NaN is absorbing.
Plus(a, b) == IF a = NaN \/ b = NaN THEN NaN ELSE a + b
Times(a, b) == IF a = NaN \/ b = NaN THEN NaN ELSE a * b

\* An Invalid Date: its time value is NaN.
InvalidDate == [day |-> NaN, ms |-> 0]
IsValidDate(dt) == dt.day # NaN

\* The date of the fields (year, month, day): month and day overflow roll
\* over; a NaN field gives an Invalid Date.
MakeDate(year, month, day) ==
    IF year = NaN \/ month = NaN \/ day = NaN THEN InvalidDate
    ELSE LET y == year + (month \div 12)
             m == month % 12
         IN  [day |-> DaysFromCivil(y, m, 1) + day - 1, ms |-> 0]

\* new Date(year, month, day): the constructor reads a year of 0..99 as
\* 1900 + year; the setters and the parser of date strings do not.
NewDate(year, month, day) ==
    IF year \in 0..99 THEN MakeDate(1900 + year, month, day)
    ELSE MakeDate(year, month, day)

\* The getters of an Invalid Date return NaN.
getFullYear(dt) == IF IsValidDate(dt) THEN CivilFromDays(dt.day).y ELSE NaN
getMonth(dt)    == IF IsValidDate(dt) THEN CivilFromDays(dt.day).m ELSE NaN
getDate(dt)     == IF IsValidDate(dt) THEN CivilFromDays(dt.day).d ELSE NaN
\* 1970-01-01 was a Thursday (4); 0 = Sunday.
getDay(dt)      == IF IsValidDate(dt) THEN (dt.day + 4) % 7 ELSE NaN

\* The setters keep the time of day; on an Invalid Date, or with a NaN
\* argument, the result is an Invalid Date.
setDate(dt, n) ==
    LET d == MakeDate(getFullYear(dt), getMonth(dt), n)
    IN  IF IsValidDate(d) THEN [day |-> d.day, ms |-> dt.ms] ELSE InvalidDate
setMonth(dt, m) ==
    LET d == MakeDate(getFullYear(dt), m, getDate(dt))
    IN  IF IsValidDate(d) THEN [day |-> d.day, ms |-> dt.ms] ELSE InvalidDate
setFullYear(dt, y) ==
    LET d == MakeDate(y, getMonth(dt), getDate(dt))
    IN  IF IsValidDate(d) THEN [day |-> d.day, ms |-> dt.ms] ELSE InvalidDate
setHours(dt, ms) == IF IsValidDate(dt) THEN [day |-> dt.day, ms |-> ms] ELSE InvalidDate

\* Mutant of DateLE: an Invalid Date is not told apart, its NaN compares as a
\* number.
DateLEOfNumbers(a, b) == a.day < b.day \/ (a.day = b.day /\ a.ms <= b.ms)

\* Date comparison (<=, >=) compares the time values; every comparison with
\* NaN is false.
DateLE(a, b) ==
    /\ IsValidDate(a) /\ IsValidDate(b)
    /\ a.day < b.day \/ (a.day = b.day /\ a.ms <= b.ms)
DateGE(a, b) == DateLE(b, a)

\* new Date(str + 'T00:00:00'): a date-time string without offset is local
\* time; a string whose month is not 01..12 or whose day is not 01..31 does
\* not parse and gives an Invalid Date.
ParseLocal(str) ==
    LET y == str \div 10000
        m == (str \div 100) % 100
        d == str % 100
    IN  IF m \in 1..12 /\ d \in 1..31 THEN MakeDate(y, m - 1, d) ELSE InvalidDate

\* new Date(str + 'T23:59:59')
ParseLocalEnd(str) == setHours(ParseLocal(str), 86399000)

\* date.toISOString().split('T')[0]: the calendar date of the instant in UTC;
\* toISOString throws a RangeError on an Invalid Date.
ISODate(dt, off) ==
    IF ~IsValidDate(dt) THEN RangeError
    ELSE LET utcDay == dt.day + ((dt.ms - off * 60000) \div MsPerDay)
             c      == CivilFromDays(utcDay)
         IN  c.y * 10000 + (c.m + 1) * 100 + c.d

\* Gets the total number of days in a given month and year.
getDaysInMonth(year, month) == getDate(NewDate(year, month + 1, 0))

-----------------------------------------------------------------------------
(* calculateRecurringDates: the pieces of the loop body.                    *)

\* 'last' of MonthlyOnThe.week (the numeric weeks are 1, 2, 3, ...).
last == 0

\* dates.add(x) on a Set<string> that keeps insertion order.
SetAdd(ds, x) == IF \E i \in DOMAIN ds : ds[i] = x THEN ds ELSE Append(ds, x)

\* The pass that computed ds has thrown: a toISOString call raised.
Threw(ds) == \E i \in DOMAIN ds : ds[i] = RangeError

\* Mutant of StringLess: a comparator that orders descending.
StringGreater(a, b) == a > b

\* Array.prototype.sort() default comparator on date strings.
StringLess(a, b) == a < b

\* Array.from(dates).sort()
SortedArray(ds) == SortSeq(ds, StringLess)

\* finalEndDate: endDate at end of day, or Jan 1 of (start year + 5) at end of day.
FinalEndDate(s) ==
    LET start == setHours(ParseLocal(s.startDate), 0)
        base  == IF s.endDate # NoDate
                 THEN ParseLocalEnd(s.endDate)
                 ELSE NewDate(Plus(getFullYear(start), HorizonYears), 0, 1)
    IN  setHours(base, EndOfDayMs)

\* Mutant of LoopCond: the end date is not tested.
LoopCondCapOnly(cur, fin, it) == it < maxIterations

\* Mutant of LoopCond: the cap is tested with <=.
LoopCondOffByOne(cur, fin, it) == DateLE(cur, fin) /\ it <= maxIterations

\* while (current <= finalEndDate && iterations < maxIterations)
LoopCond(cur, fin, it) == DateLE(cur, fin) /\ it < maxIterations

\* case 'daily'
DailyStep(s, off, cur, ds) ==
    [dates   |-> SetAdd(ds, ISODate(cur, off)),
     current |-> setDate(cur, Plus(getDate(cur), s.interval))]

\* the for (i = 0; i < 7; i++) loop of case 'weekly'
RECURSIVE WeekScan(_, _, _, _, _, _)
WeekScan(s, off, fin, cur, ds, i) ==
    IF i >= 7 THEN [dates |-> ds, current |-> cur]
    ELSE LET dayOfWeek == getDay(cur)
             hit == /\ dayOfWeek \in DOMAIN s.weeklyDays
                    /\ s.weeklyDays[dayOfWeek]
                    /\ DateGE(cur, ParseLocal(s.startDate))
                    /\ DateLE(cur, fin)
             ds2 == IF hit THEN SetAdd(ds, ISODate(cur, off)) ELSE ds
         IN  WeekScan(s, off, fin, setDate(cur, Plus(getDate(cur), 1)), ds2, i + 1)

\* case 'weekly'; it is the value of iterations after iterations++
WeeklyStep(s, off, fin, it, cur, ds) ==
    LET startDay == getDay(ParseLocal(s.startDate))
        aligned  == IF it = 1 THEN setDate(cur, Plus(getDate(cur), -startDay)) ELSE cur
        scan     == WeekScan(s, off, fin, aligned, ds, 0)
    IN  [dates   |-> scan.dates,
         current |-> setDate(scan.current,
                             Plus(getDate(scan.current),
                                  Times(Plus(s.interval, -1), 7)))]

\* matchingDays: the days of the cursor's month that fall on weekday day, ascending
MatchingDays(cur, day) ==
    LET y == getFullYear(cur)
        m == getMonth(cur)
        daysInMonthArr == [i \in 1..getDaysInMonth(y, m) |-> NewDate(y, m, i)]
        OnDay(d) == getDay(d) = day
    IN  SelectSeq(daysInMonthArr, OnDay)

\* monthDate as a sequence: <<>> is null, <<d>> is the Date d
MonthDate(s, cur) ==
    IF s.monthlyType = "onDay"
    THEN <<NewDate(getFullYear(cur), getMonth(cur), s.monthlyOnDay)>>
    ELSE LET week == s.monthlyOnThe.week
             matchingDays == MatchingDays(cur, s.monthlyOnThe.day)
             idx == IF week = last THEN Len(matchingDays) ELSE week
         IN  IF idx \in DOMAIN matchingDays THEN <<matchingDays[idx]>> ELSE <<>>

\* case 'monthly'
MonthlyStep(s, off, fin, cur, ds) ==
    LET monthDate == MonthDate(s, cur)
        hit == /\ monthDate # <<>>
               /\ DateGE(monthDate[1], ParseLocal(s.startDate))
               /\ DateLE(monthDate[1], fin)
    IN  [dates   |-> IF hit THEN SetAdd(ds, ISODate(monthDate[1], off)) ELSE ds,
         current |-> setDate(setMonth(cur, Plus(getMonth(cur), s.interval)), 1)]

\* yearlyDate
YearlyDate(s, cur) ==
    NewDate(getFullYear(cur),
            getMonth(ParseLocal(s.startDate)),
            getDate(ParseLocal(s.startDate)))

\* case 'yearly'
YearlyStep(s, off, fin, cur, ds) ==
    LET yearlyDate == YearlyDate(s, cur)
        hit == /\ DateGE(yearlyDate, ParseLocal(s.startDate))
               /\ DateLE(yearlyDate, fin)
    IN  [dates   |-> IF hit THEN SetAdd(ds, ISODate(yearlyDate, off)) ELSE ds,
         current |-> setFullYear(cur, Plus(getFullYear(cur), s.interval))]

Frequencies == {"daily", "weekly", "monthly", "yearly"}

\* switch (frequency): one pass of the loop body
StepOf(s, off, fin, it, cur, ds) ==
    CASE s.frequency = "daily"   -> DailyStep(s, off, cur, ds)
      [] s.frequency = "weekly"  -> WeeklyStep(s, off, fin, it, cur, ds)
      [] s.frequency = "monthly" -> MonthlyStep(s, off, fin, cur, ds)
      [] s.frequency = "yearly"  -> YearlyStep(s, off, fin, cur, ds)

\* The element of a one-element set.  { F(x) : x \in {e} } computes e once
\* and hands its value to F.
TheOne(S) == CHOOSE x \in S : TRUE

\* The loop as a whole.  A loop state is [current, dates, iterations, ret]:
\* ret is <<>> while the loop runs and <<r>> once the function has returned r.
PassOf(s, off, fin, st) ==
    IF st.ret # <<>> THEN st
    ELSE IF ~LoopCond(st.current, fin, st.iterations)
    THEN [st EXCEPT !.ret = <<SortedArray(st.dates)>>]
    ELSE IF s.frequency \notin Frequencies
    THEN [st EXCEPT !.iterations = @ + 1, !.ret = << <<>> >>]
    ELSE TheOne({ IF Threw(step.dates)
                  THEN [st EXCEPT !.iterations = @ + 1, !.ret = << <<RangeError>> >>]
                  ELSE [current |-> step.current, dates |-> step.dates,
                        iterations |-> st.iterations + 1, ret |-> <<>>] :
                  step \in {StepOf(s, off, fin, st.iterations + 1, st.current, st.dates)} })

\* n turns of the while loop from loop state st, the first half of them and
\* then the second half.
RECURSIVE Passes(_, _, _, _, _)
Passes(s, off, fin, st, n) ==
    IF st.ret # <<>> \/ n = 0 THEN st
    ELSE IF n = 1 THEN PassOf(s, off, fin, st)
    ELSE TheOne({ Passes(s, off, fin, mid, n - n \div 2) :
                  mid \in {Passes(s, off, fin, st, n \div 2)} })

\* calculateRecurringDates(settings) on a host with UTC offset off: the early
\* return, then at most maxIterations passes and the test that ends the loop.
calculateRecurringDates(s, off) ==
    IF s.startDate = NoDate THEN <<>>
    ELSE TheOne({ Passes(s, off, fin, st0, maxIterations + 1).ret[1] :
                  fin \in {FinalEndDate(s)},
                  st0 \in {[current |-> setHours(ParseLocal(s.startDate), 0),
                            dates |-> <<>>, iterations |-> 0, ret |-> <<>>]} })

-----------------------------------------------------------------------------
(* calculateRecurringDates as a state machine: one action per loop pass.    *)

\* Mutant of ReturnEmpty: no early return, the empty start date is parsed and
\* the loop is entered.
ReturnEmptyFallsThrough ==
    /\ pc = "start"
    /\ settings.startDate = NoDate
    /\ dates' = <<>>
    /\ current' = ParseLocal(settings.startDate)
    /\ finalEndDate' = setHours(ParseLocal(settings.startDate), EndOfDayMs)
    /\ iterations' = 0
    /\ pc' = "loop"
    /\ UNCHANGED <<settings, tz, result, appVars>>

\* if (!settings.startDate) return [];
ReturnEmpty ==
    /\ pc = "start"
    /\ settings.startDate = NoDate
    /\ result' = <<>>
    /\ pc' = "done"
    /\ UNCHANGED <<settings, tz, current, finalEndDate, iterations, dates, appVars>>

\* lines 155-173: the set, the cursor, finalEndDate, the counter
Enter ==
    /\ pc = "start"
    /\ settings.startDate # NoDate
    /\ dates' = <<>>
    /\ current' = setHours(ParseLocal(settings.startDate), 0)
    /\ finalEndDate' = FinalEndDate(settings)
    /\ iterations' = 0
    /\ pc' = "loop"
    /\ UNCHANGED <<settings, tz, result, appVars>>

\* iterations++ and the case of the switch; an exception leaves the function.
LoopPass(step) ==
    /\ iterations' = iterations + 1
    /\ IF Threw(step.dates)
       THEN pc' = "threw" /\ UNCHANGED <<dates, current>>
       ELSE pc' = pc /\ dates' = step.dates /\ current' = step.current
    /\ UNCHANGED <<settings, tz, finalEndDate, result, appVars>>

Daily ==
    /\ pc = "loop"
    /\ LoopCond(current, finalEndDate, iterations)
    /\ settings.frequency = "daily"
    /\ LoopPass(DailyStep(settings, tz, current, dates))

Weekly ==
    /\ pc = "loop"
    /\ LoopCond(current, finalEndDate, iterations)
    /\ settings.frequency = "weekly"
    /\ LoopPass(WeeklyStep(settings, tz, finalEndDate, iterations + 1, current, dates))

Monthly ==
    /\ pc = "loop"
    /\ LoopCond(current, finalEndDate, iterations)
    /\ settings.frequency = "monthly"
    /\ LoopPass(MonthlyStep(settings, tz, finalEndDate, current, dates))

Yearly ==
    /\ pc = "loop"
    /\ LoopCond(current, finalEndDate, iterations)
    /\ settings.frequency = "yearly"
    /\ LoopPass(YearlyStep(settings, tz, finalEndDate, current, dates))

\* default: return [];
Unsupported ==
    /\ pc = "loop"
    /\ LoopCond(current, finalEndDate, iterations)
    /\ settings.frequency \notin Frequencies
    /\ iterations' = iterations + 1
    /\ result' = <<>>
    /\ pc' = "done"
    /\ UNCHANGED <<settings, tz, current, finalEndDate, dates, appVars>>

\* the loop condition fails: return Array.from(dates).sort();
Return ==
    /\ pc = "loop"
    /\ ~LoopCond(current, finalEndDate, iterations)
    /\ result' = SortedArray(dates)
    /\ pc' = "done"
    /\ UNCHANGED <<settings, tz, current, finalEndDate, iterations, dates, appVars>>

Next ==
    \/ ReturnEmpty
    \/ Enter
    \/ Daily
    \/ Weekly
    \/ Monthly
    \/ Yearly
    \/ Unsupported
    \/ Return

-----------------------------------------------------------------------------
(* The settings values and hosts the expansion is run on.                   *)

\* The value of an <input type="date"> showing the local day `day`.
DateString(day) ==
    LET c == CivilFromDays(day) IN c.y * 10000 + (c.m + 1) * 100 + c.d

\* An end date choice o is <<>> (no end date) or <<k>> (k days after the start).
EndOf(sd, o) == IF o = <<>> THEN NoDate ELSE DateString(ParseLocal(sd).day + o[1])

\* weeklyDays as the picker holds it: weekday index -> boolean
WeeklyDaysOf(S) == [d \in 0..6 |-> d \in S]

MkSettings(f, n, wd, mt, mday, mthe, sd, ed) ==
    [frequency |-> f, interval |-> n, weeklyDays |-> wd, monthlyType |-> mt,
     monthlyOnDay |-> mday, monthlyOnThe |-> mthe, startDate |-> sd, endDate |-> ed]

\* The fields a frequency does not read keep the picker's defaults.
DefaultWeeklyDays == WeeklyDaysOf(1..5)
DefaultOnThe == [week |-> 1, day |-> 1]

MkDaily(n, sd, ed) ==
    MkSettings("daily", n, DefaultWeeklyDays, "onDay", 1, DefaultOnThe, sd, ed)
MkWeekly(n, S, sd, ed) ==
    MkSettings("weekly", n, WeeklyDaysOf(S), "onDay", 1, DefaultOnThe, sd, ed)
MkOnDay(n, D, sd, ed) ==
    MkSettings("monthly", n, DefaultWeeklyDays, "onDay", D, DefaultOnThe, sd, ed)
MkOnThe(n, w, sd, ed) ==
    MkSettings("monthly", n, DefaultWeeklyDays, "onThe", 1, w, sd, ed)
MkYearly(n, sd, ed) ==
    MkSettings("yearly", n, DefaultWeeklyDays, "onDay", 1, DefaultOnThe, sd, ed)

\* Hosts: New York (UTC-5), UTC, India (UTC+5:30).
TimeZones == {-300, 0, 330}

\* A Monday; the day before a non-leap March; a leap day; a 31st.
StartDates == {20240101, 20230228, 20240229, 20240131}

\* The start dates of the long day-by-day and week-by-week walks to the
\* default horizon (about 1800 and 260 passes).
HorizonStarts == {20240101}

Intervals == 1..MaxInterval

DailyEnds   == {<<0>>, <<4>>, <<9>>}
WeeklyEnds  == {<<0>>, <<9>>, <<13>>, <<30>>}
MonthlyEnds == {<<>>, <<30>>, <<90>>, <<400>>}
YearlyEnds  == {<<>>, <<0>>, <<731>>, <<732>>, <<1461>>}

WeekdaySets == { {1, 3}, {}, 0..6, {0, 6} }
OnDays == {1, 15, 29, 30, 31}
OnThes == [week : {1, 2, 3, 4, 5, last}, day : {0, 1, 5}]

DailyInputs ==
    { MkDaily(n, sd, EndOf(sd, o)) : n \in Intervals, sd \in StartDates, o \in DailyEnds } \cup
    { MkDaily(n, sd, NoDate) : n \in Intervals, sd \in HorizonStarts }
WeeklyInputs ==
    { MkWeekly(n, S, sd, EndOf(sd, o)) :
        n \in Intervals, S \in WeekdaySets, sd \in StartDates, o \in WeeklyEnds } \cup
    { MkWeekly(n, S, sd, NoDate) : n \in Intervals, S \in WeekdaySets, sd \in HorizonStarts }
MonthlyInputs ==
    { MkOnDay(n, D, sd, EndOf(sd, o)) :
        n \in Intervals, D \in OnDays, sd \in StartDates, o \in MonthlyEnds } \cup
    { MkOnThe(n, w, sd, EndOf(sd, o)) :
        n \in Intervals, w \in OnThes, sd \in StartDates, o \in MonthlyEnds }
YearlyInputs ==
    { MkYearly(n, sd, EndOf(sd, o)) : n \in Intervals, sd \in StartDates, o \in YearlyEnds }

\* The start-date field cleared (handleDateChange stores null), for every frequency.
NoStartInputs ==
    { MkSettings(f, n, WeeklyDaysOf(S), mt, 15, DefaultOnThe, NoDate, ed) :
        f \in Frequencies, n \in Intervals, S \in {{}, 1..5}, mt \in {"onDay", "onThe"},
        ed \in {NoDate, 20240105} }

\* A frequency outside the four the switch knows.
UnsupportedInputs ==
    { MkSettings("hourly", 1, DefaultWeeklyDays, "onDay", 1, DefaultOnThe, sd, NoDate) :
        sd \in StartDates }

Inputs ==
    DailyInputs \cup WeeklyInputs \cup MonthlyInputs \cup YearlyInputs
        \cup NoStartInputs \cup UnsupportedInputs

NoDateValue == [day |-> 0, ms |-> 0]

\* An Events object without keys.
NoEvents == [d \in {} |-> [typeId |-> 0, time |-> 0]]

\* The host clock when the page is loaded: Monday 2024-01-15, 08:59:50 local.
ClockAtLoad == setHours(ParseLocal(20240115), (8 * 60 + 59) * 60000 + 50000)

\* App after its first render (the useState initial values), nothing observed yet.
AppAtLoad ==
    /\ showPicker = FALSE
    /\ isEditing = FALSE
    /\ savedData = <<>>
    /\ events = NoEvents
    /\ customEventTypes = <<>>
    /\ activeReminder = <<>>
    /\ triggeredReminders = {}
    /\ picker = <<>>
    /\ now = ClockAtLoad
    /\ idClock = 0
    /\ data = <<>>
    /\ saves = 0
    /\ fired = <<>>
    /\ polled = FALSE

\* A call not yet made with settings from S, on a host with an offset from Z.
InitOn(S, Z) ==
    /\ settings \in S
    /\ tz \in Z
    /\ pc = "start"
    /\ current = NoDateValue
    /\ finalEndDate = NoDateValue
    /\ iterations = 0
    /\ dates = <<>>
    /\ result = <<>>
    /\ AppAtLoad

InitWith(S) == InitOn(S, TimeZones)

Init == InitWith(Inputs)

Spec == Init /\ [][Next]_vars

-----------------------------------------------------------------------------
(* Settings whose walk needs more than maxIterations passes: the end date   *)
(* lies a few passes beyond the cap, or the cursor does not advance         *)
(* (interval 0).  A few short walks are kept beside them.                   *)

MaxCapInterval == 1
CapIntervals == 0..MaxCapInterval

\* Days from the start to an end date that lies about 2003 passes away.
DailyReach(n)   == IF n = 0 THEN 5 ELSE 2003 * n
WeeklyReach(n)  == IF n = 0 THEN 5 ELSE 7 * 2003 * n
MonthlyReach(n) == IF n = 0 THEN 5 ELSE 61000 * n
YearlyReach(n)  == IF n = 0 THEN 5 ELSE 731600 * n

\* A Monday.
CapStarts == {20240101}

CapInputs ==
    { MkDaily(n, sd, EndOf(sd, <<DailyReach(n)>>)) : n \in CapIntervals, sd \in CapStarts } \cup
    { MkWeekly(n, {3}, sd, EndOf(sd, <<WeeklyReach(n)>>)) : n \in CapIntervals, sd \in CapStarts } \cup
    { MkOnDay(n, 31, sd, EndOf(sd, <<MonthlyReach(n)>>)) : n \in CapIntervals, sd \in CapStarts } \cup
    { MkOnThe(n, [week |-> last, day |-> 5], sd, EndOf(sd, <<MonthlyReach(n)>>)) :
        n \in CapIntervals, sd \in CapStarts } \cup
    { MkYearly(n, sd, EndOf(sd, <<YearlyReach(n)>>)) : n \in CapIntervals, sd \in CapStarts }

\* Short walks: the examples of the specification, a week starting on its
\* Sunday with every weekday selected, a cleared start date, an unknown frequency.
ShortInputs ==
    { MkDaily(1, 20240101, 20240105),
      MkWeekly(1, {1, 3}, 20240101, 20240114),
      MkWeekly(1, 0..6, 20231231, 20240113),
      MkOnThe(1, [week |-> last, day |-> 5], 20240101, 20240331),
      MkYearly(1, 20230228, 20250301),
      MkDaily(1, NoDate, NoDate),
      MkSettings("hourly", 1, DefaultWeeklyDays, "onDay", 1, DefaultOnThe, 20240101, NoDate) }

InitCap == InitWith(CapInputs \cup ShortInputs)

SpecCap == InitCap /\ [][Next]_vars

\* Every settings value of the two families together.
InitAll == InitWith(Inputs \cup CapInputs \cup ShortInputs)

SpecAll == InitAll /\ [][Next]_vars

-----------------------------------------------------------------------------
(* Settings without an end date: the walks to the default horizon, Jan 1    *)
(* of the start year + 5, for every frequency.                              *)

\* A Jan 1 with two leap years before the horizon (the longest walk of four-
\* digit years); a Dec 31; a start date of the year 50, which a date field
\* holds as '0050-03-01'.
DefaultHorizonStarts == {20240101, 20231231, 500301}

HorizonInputs ==
    { MkDaily(n, sd, NoDate) : n \in Intervals, sd \in DefaultHorizonStarts } \cup
    { MkWeekly(n, S, sd, NoDate) :
        n \in Intervals, S \in {{1, 3}, {}}, sd \in DefaultHorizonStarts } \cup
    { MkOnDay(n, 31, sd, NoDate) : n \in Intervals, sd \in DefaultHorizonStarts } \cup
    { MkOnThe(n, [week |-> last, day |-> 5], sd, NoDate) :
        n \in Intervals, sd \in DefaultHorizonStarts } \cup
    { MkYearly(n, sd, NoDate) : n \in Intervals, sd \in DefaultHorizonStarts } \cup
    { MkDaily(1, NoDate, NoDate),
      MkSettings("hourly", 1, DefaultWeeklyDays, "onDay", 1, DefaultOnThe, 20240101, NoDate) }

InitHorizon == InitWith(HorizonInputs)

SpecHorizon == InitHorizon /\ [][Next]_vars

-----------------------------------------------------------------------------
(* Malformed settings values: what the type RecurringSettings admits but    *)
(* the picker's fields would not produce.                                   *)

\* "2024-13-01": a date string that does not parse.
UnparseableDates == {20241301}

\* NaN, zero and negative intervals.
BadIntervals == {NaN, 0, -1}

MalformedInputs ==
    \* unparseable startDate / unparseable endDate / endDate before startDate
    { MkSettings(f, 1, WeeklyDaysOf(0..6), "onDay", 15, DefaultOnThe, se[1], se[2]) :
        f \in Frequencies,
        se \in (UnparseableDates \X {NoDate, 20240105})
                 \cup ({20240131} \X UnparseableDates)
                 \cup {<<20240131, 20240101>>} } \cup
    \* NaN, zero and negative interval
    { MkSettings(f, n, WeeklyDaysOf(0..6), mt, 15, [week |-> last, day |-> 5],
                 20240101, 20240131) :
        f \in Frequencies, n \in BadIntervals, mt \in {"onDay", "onThe"} } \cup
    \* NaN and out-of-range monthlyOnDay
    { MkOnDay(1, D, 20240101, 20240401) : D \in {NaN, 0, -5, 45} } \cup
    \* ordinals with no occurrence in some or all months
    { MkOnThe(1, [week |-> w, day |-> 1], 20240101, 20240401) : w \in {5, 6, NaN} } \cup
    \* a cleared start date and an unknown frequency
    { MkSettings(f, NaN, DefaultWeeklyDays, "onDay", NaN, DefaultOnThe, sd, NoDate) :
        f \in {"daily", "hourly"}, sd \in {NoDate, 20240101} }

InitMalformed == InitWith(MalformedInputs)

SpecMalformed == InitMalformed /\ [][Next]_vars

-----------------------------------------------------------------------------
(* The picker (RecurringDatePicker and its children) and App.               *)
(*  - A time string "HH:MM" is the number HHMM.                             *)
(*  - A text typed into a field is a sequence of one-character strings.     *)
(*  - An event type id `evt_<ms>` is the number <ms>; NoType is null.       *)

MaxSaves == 2
MaxTypes == 2
MaxMonthsAway == 1
MaxAdvance == 7

\* The period of the reminder poller, in milliseconds.
TickMs == 10000

NoType == 0
DefaultTime == 900
\* The value of an emptied <input type="time">: the empty string.
NoTime == -1

Digits == {"0", "1", "2", "3", "4", "5", "6", "7", "8", "9"}
DigitValue(c) ==
    CASE c = "0" -> 0 [] c = "1" -> 1 [] c = "2" -> 2 [] c = "3" -> 3 [] c = "4" -> 4
      [] c = "5" -> 5 [] c = "6" -> 6 [] c = "7" -> 7 [] c = "8" -> 8 [] c = "9" -> 9

\* The value of the longest prefix of digits of txt, read from position i
\* with acc the value so far.
RECURSIVE DigitsValue(_, _, _)
DigitsValue(txt, i, acc) ==
    IF i > Len(txt) \/ txt[i] \notin Digits THEN acc
    ELSE DigitsValue(txt, i + 1, acc * 10 + DigitValue(txt[i]))

\* parseInt(txt, 10): an optional sign, then the longest prefix of digits; NaN
\* when there is no digit.
parseInt(txt) ==
    LET signed == Len(txt) >= 1 /\ txt[1] \in {"-", "+"}
        first  == IF signed THEN 2 ELSE 1
    IN  IF first > Len(txt) \/ txt[first] \notin Digits THEN NaN
        ELSE IF signed /\ txt[1] = "-" THEN -DigitsValue(txt, first, 0)
        ELSE DigitsValue(txt, first, 0)

\* x || y on numbers: y when x is 0 or NaN.
OrElse(x, y) == IF x = 0 \/ x = NaN THEN y ELSE x

\* Math.max(a, b); NaN when an argument is NaN.
MathMax(a, b) == IF a = NaN \/ b = NaN THEN NaN ELSE IF a >= b THEN a ELSE b

\* { ...a, ...b }: the keys of both, b winning on a shared key.
Spread(a, b) ==
    [d \in (DOMAIN a) \cup (DOMAIN b) |-> IF d \in DOMAIN b THEN b[d] ELSE a[d]]

\* The object obj without the key d.
DeleteKey(obj, d) == [k \in (DOMAIN obj) \ {d} |-> obj[k]]

Elements(seq) == {seq[i] : i \in DOMAIN seq}

\* [...new Set([...a, ...b])] for arrays a and b that hold no value twice: a,
\* then the values of b that are not in a, in the order of b.
UnionArray(a, b) ==
    LET inA == Elements(a)
        Fresh(x) == x \notin inA
    IN  a \o SelectSeq(b, Fresh)

\* The settings the picker's effect sets when there are no initial settings.
DefaultSettings(today, off) ==
    [frequency |-> "daily", interval |-> 1,
     weeklyDays |-> [d \in 0..6 |-> d \in 1..5],
     monthlyType |-> "onDay", monthlyOnDay |-> getDate(today),
     monthlyOnThe |-> [week |-> 1, day |-> getDay(today)],
     startDate |-> ISODate(today, off), endDate |-> NoDate]

\* The picker after mounting: the useState initial values and the effect
\* that initialises the settings.  initialSettings is <<>> (null) or <<s>>.
Mounted(initialSettings, initialEvents) ==
    <<[settings       |-> IF initialSettings # <<>> THEN initialSettings[1]
                          ELSE DefaultSettings(now, tz),
       draftEvents    |-> initialEvents,
       eventMode      |-> "individual",
       masterEvent    |-> [typeId |-> NoType, time |-> DefaultTime],
       currentDate    |-> now,
       selectedDate   |-> NoDate,
       individualTime |-> DefaultTime]>>

\* "Set Recurrence" / "Create New"; the buttons lie under the modal while
\* the picker is shown.
HandleCreateNew ==
    /\ ~showPicker
    /\ isEditing' = FALSE
    /\ showPicker' = TRUE
    /\ picker' = Mounted(<<>>, NoEvents)
    /\ UNCHANGED <<coreVars, tz, savedData, events, customEventTypes, activeReminder,
                   triggeredReminders, now, idClock, data, saves, fired, polled>>

\* "Edit Last", rendered once there is saved data.
HandleEdit ==
    /\ ~showPicker
    /\ savedData # <<>>
    /\ isEditing' = TRUE
    /\ showPicker' = TRUE
    /\ picker' = Mounted(<<savedData[1].settings>>, events)
    /\ UNCHANGED <<coreVars, tz, savedData, events, customEventTypes, activeReminder,
                   triggeredReminders, now, idClock, data, saves, fired, polled>>

\* onClose and the click beside the modal: setShowPicker(false) unmounts the picker.
ClosePicker ==
    /\ showPicker
    /\ showPicker' = FALSE
    /\ picker' = <<>>
    /\ UNCHANGED <<coreVars, tz, isEditing, savedData, events, customEventTypes,
                   activeReminder, triggeredReminders, now, idClock, data, saves, fired, polled>>

\* setSettings(s => ({ ...s, ... })): the new settings value replaces the old.
SetSettings(s) ==
    /\ picker' = <<[picker[1] EXCEPT !.settings = s]>>
    /\ UNCHANGED <<coreVars, tz, showPicker, isEditing, savedData, events,
                   customEventTypes, activeReminder, triggeredReminders, now, idClock,
                   data, saves, fired, polled>>

\* RecurrenceOptions: a click on a frequency button
SelectFrequency(freq) ==
    /\ picker # <<>>
    /\ SetSettings([picker[1].settings EXCEPT !.frequency = freq])

\* Mutant of HandleIntervalChange: the parsed value is stored as it is.
HandleIntervalChangeUnclamped(txt) ==
    /\ picker # <<>>
    /\ SetSettings([picker[1].settings EXCEPT !.interval = parseInt(txt)])

\* Customization.handleIntervalChange
HandleIntervalChange(txt) ==
    /\ picker # <<>>
    /\ LET value == MathMax(1, OrElse(parseInt(txt), 1))
       IN  SetSettings([picker[1].settings EXCEPT !.interval = value])

\* Customization.toggleWeeklyDay; the buttons are rendered for weekly only
ToggleWeeklyDay(dayIndex) ==
    /\ picker # <<>>
    /\ picker[1].settings.frequency = "weekly"
    /\ SetSettings([picker[1].settings EXCEPT !.weeklyDays[dayIndex] = ~@])

\* Customization.renderMonthly: the two radio buttons
SetMonthlyType(t) ==
    /\ picker # <<>>
    /\ picker[1].settings.frequency = "monthly"
    /\ SetSettings([picker[1].settings EXCEPT !.monthlyType = t])

\* Customization.renderMonthly: the "On day" number field, disabled unless onDay
MonthlyOnDayChange(txt) ==
    /\ picker # <<>>
    /\ picker[1].settings.frequency = "monthly"
    /\ picker[1].settings.monthlyType = "onDay"
    /\ SetSettings([picker[1].settings EXCEPT !.monthlyOnDay = parseInt(txt)])

\* Customization.renderMonthly: the week select, disabled unless onThe;
\* txt is the value of the chosen option
OnTheWeekChange(txt) ==
    /\ picker # <<>>
    /\ picker[1].settings.frequency = "monthly"
    /\ picker[1].settings.monthlyType = "onThe"
    /\ SetSettings([picker[1].settings EXCEPT
            !.monthlyOnThe.week = IF txt = <<"l", "a", "s", "t">> THEN last
                                  ELSE parseInt(txt)])

\* Customization.renderMonthly: the weekday select, disabled unless onThe
OnTheDayChange(txt) ==
    /\ picker # <<>>
    /\ picker[1].settings.frequency = "monthly"
    /\ picker[1].settings.monthlyType = "onThe"
    /\ SetSettings([picker[1].settings EXCEPT !.monthlyOnThe.day = parseInt(txt)])

\* DateRange.handleDateChange: value || null (the empty value and null are
\* both NoDate)
HandleDateChange(field, value) ==
    /\ picker # <<>>
    /\ SetSettings([picker[1].settings EXCEPT ![field] = value])

\* A setter of the picker's own state (setEventMode, setMasterEvent,
\* setDraftEvents and the useState setters of MiniCalendar).
SetPicker(p) ==
    /\ picker' = <<p>>
    /\ UNCHANGED <<coreVars, tz, showPicker, isEditing, savedData, events,
                   customEventTypes, activeReminder, triggeredReminders, now, idClock,
                   data, saves, fired, polled>>

SUGGESTED_EVENT_TYPES == <<"Meeting", "Appointment", "Birthday", "Anniversary">>

\* title.trim() and title.toLowerCase() on the titles used here.
Trim(title) ==
    CASE title = " " -> "" [] title = " Gym " -> "Gym" [] OTHER -> title
ToLowerCase(title) ==
    CASE title = "Meeting" -> "meeting" [] title = "Appointment" -> "appointment"
      [] title = "Birthday" -> "birthday" [] title = "Anniversary" -> "anniversary"
      [] title = "Gym" -> "gym" [] OTHER -> title

\* App.addEventType: the id is `evt_${Date.now()}`.  idClock is the last
\* reading of Date.now(); a reading is the last one again (a second call
\* within the clock's resolution) or a later one, up to MaxTypes.  The color
\* is not modelled.
AddEventType(title) ==
    /\ Len(customEventTypes) < MaxTypes
    /\ \E t \in {idClock, idClock + 1} :
          /\ t \in 1..MaxTypes
          /\ idClock' = t
          /\ customEventTypes' = Append(customEventTypes, [id |-> t, title |-> title])
    /\ UNCHANGED <<coreVars, tz, showPicker, isEditing, savedData, events,
                   activeReminder, triggeredReminders, picker, now, data, saves, fired, polled>>

\* ManageEvents.handleAddCustom: the Add button beside the title field
HandleAddCustom(title) ==
    /\ picker # <<>>
    /\ Trim(title) # ""
    /\ AddEventType(Trim(title))

\* ManageEvents.handleAddSuggestion: a click on a suggestion
HandleAddSuggestion(suggestion) ==
    /\ picker # <<>>
    /\ suggestion \in Elements(SUGGESTED_EVENT_TYPES)
    /\ ~ \E i \in DOMAIN customEventTypes :
            ToLowerCase(customEventTypes[i].title) = ToLowerCase(suggestion)
    /\ AddEventType(suggestion)

\* EventOptions: "Assign to all" / "Assign individually"
SetEventMode(mode) ==
    /\ picker # <<>>
    /\ SetPicker([picker[1] EXCEPT !.eventMode = mode])

\* EventOptions: the master select, rendered in 'all' mode; its options are
\* "No Event" (value '', stored as null) and the event types.
SetMasterType(value) ==
    /\ picker # <<>>
    /\ picker[1].eventMode = "all"
    /\ \/ value = NoType
       \/ \E i \in DOMAIN customEventTypes : customEventTypes[i].id = value
    /\ SetPicker([picker[1] EXCEPT !.masterEvent.typeId = value])

\* EventOptions: the master time field, rendered once a master type is chosen
SetMasterTime(time) ==
    /\ picker # <<>>
    /\ picker[1].eventMode = "all"
    /\ picker[1].masterEvent.typeId # NoType
    /\ SetPicker([picker[1] EXCEPT !.masterEvent.time = time])

\* MiniCalendar.changeMonth
ChangeMonth(offset) ==
    /\ picker # <<>>
    /\ LET prev == picker[1].currentDate
       IN  SetPicker([picker[1] EXCEPT
                        !.currentDate = setMonth(prev, getMonth(prev) + offset)])

\* The date string MiniCalendar builds for a day of the month in view.
ViewDateStr(p, day) ==
    getFullYear(p.currentDate) * 10000 + (getMonth(p.currentDate) + 1) * 100 + day

\* draftEvents[dateStr]?.time || '09:00'
TimeOrDefault(draft, dateStr) ==
    IF dateStr \in DOMAIN draft /\ draft[dateStr].time # NoTime
    THEN draft[dateStr].time ELSE DefaultTime

\* MiniCalendar.handleDayClick: the day buttons of the month in view are
\* enabled in 'individual' mode, whether or not the day is a recurring date.
HandleDayClick(day) ==
    /\ picker # <<>>
    /\ picker[1].eventMode = "individual"
    /\ day \in 1..getDaysInMonth(getFullYear(picker[1].currentDate),
                                 getMonth(picker[1].currentDate))
    /\ LET dateStr == ViewDateStr(picker[1], day)
       IN  SetPicker([picker[1] EXCEPT
                        !.selectedDate = dateStr,
                        !.individualTime = TimeOrDefault(picker[1].draftEvents, dateStr)])

\* The panel under the calendar is rendered for a selected date in
\* 'individual' mode.
PanelShown ==
    /\ picker # <<>>
    /\ picker[1].selectedDate # NoDate
    /\ picker[1].eventMode = "individual"

\* MiniCalendar.handleAssignEvent: a click on an event type of the panel
HandleAssignEvent(eventTypeId) ==
    /\ PanelShown
    /\ \E i \in DOMAIN customEventTypes : customEventTypes[i].id = eventTypeId
    /\ LET p == picker[1]
           assignment == [typeId |-> eventTypeId, time |-> p.individualTime]
       IN  SetPicker([p EXCEPT
                        !.draftEvents = Spread(@, [d \in {p.selectedDate} |-> assignment]),
                        !.selectedDate = NoDate])

\* MiniCalendar.handleIndividualTimeChange: the time field of the panel,
\* rendered when the selected date has an assignment
HandleIndividualTimeChange(time) ==
    /\ PanelShown
    /\ picker[1].selectedDate \in DOMAIN picker[1].draftEvents
    /\ LET p == picker[1]
       IN  SetPicker([p EXCEPT
                        !.individualTime = time,
                        !.draftEvents[p.selectedDate].time = time])

\* MiniCalendar.handleRemoveEvent: "Remove Event"
HandleRemoveEvent ==
    /\ PanelShown
    /\ SetPicker([picker[1] EXCEPT
                    !.draftEvents = DeleteKey(@, picker[1].selectedDate),
                    !.selectedDate = NoDate])

\* Mutant of FinalEvents: the master event is put on the expansion without
\* its first date.
FinalEventsAfterFirst(p, recurringDates) ==
    IF p.eventMode = "all" /\ p.masterEvent.typeId # NoType
    THEN [d \in Elements(Tail(recurringDates)) |->
             [typeId |-> p.masterEvent.typeId, time |-> p.masterEvent.time]]
    ELSE IF p.eventMode = "individual" THEN p.draftEvents
    ELSE NoEvents

\* RecurringDatePicker.handleSave: the events handed to onSave
FinalEvents(p, recurringDates) ==
    IF p.eventMode = "all" /\ p.masterEvent.typeId # NoType
    THEN [d \in Elements(recurringDates) |->
             [typeId |-> p.masterEvent.typeId, time |-> p.masterEvent.time]]
    ELSE IF p.eventMode = "individual" THEN p.draftEvents
    ELSE NoEvents

\* Mutant of HandleSave: the events of the save replace the event store.
HandleSaveReplacing(d) ==
    LET previous == IF savedData # <<>> THEN savedData[1].recurringDates ELSE <<>>
        newSavedData ==
            [settings |-> d.settings,
             recurringDates |-> UnionArray(previous, d.recurringDates),
             events |-> d.events,
             customEventTypes |-> d.customEventTypes]
    IN  /\ savedData' = <<newSavedData>>
        /\ events' = d.events
        /\ customEventTypes' = d.customEventTypes
        /\ showPicker' = FALSE
        /\ picker' = <<>>

\* App.handleSave(d)
HandleSave(d) ==
    LET mergedEvents == Spread(events, d.events)
        previous == IF savedData # <<>> THEN savedData[1].recurringDates ELSE <<>>
        newSavedData ==
            [settings |-> d.settings,
             recurringDates |-> UnionArray(previous, d.recurringDates),
             events |-> mergedEvents,
             customEventTypes |-> d.customEventTypes]
    IN  /\ savedData' = <<newSavedData>>
        /\ events' = mergedEvents
        /\ customEventTypes' = d.customEventTypes
        /\ showPicker' = FALSE
        /\ picker' = <<>>

\* The Save button: RecurringDatePicker.handleSave, which calls onSave, which
\* is App.handleSave.  recurringDates is the memoised expansion of the settings.
\* data records the call: the argument of onSave, and the assignment mode and
\* master event of the picker at the click.
PickerSave ==
    /\ picker # <<>>
    /\ saves < MaxSaves
    /\ \E recurringDates \in {calculateRecurringDates(picker[1].settings, tz)} :
         LET p == picker[1]
             d == [settings |-> p.settings, recurringDates |-> recurringDates,
                   events |-> FinalEvents(p, recurringDates),
                   customEventTypes |-> customEventTypes]
         IN  /\ HandleSave(d)
             /\ data' = <<d, [eventMode |-> p.eventMode, masterEvent |-> p.masterEvent]>>
    /\ saves' = saves + 1
    /\ UNCHANGED <<coreVars, tz, isEditing, activeReminder, triggeredReminders, now,
                   idClock, fired, polled>>

\* now.getHours() and now.getMinutes() as the "HH:MM" string the poller builds.
TimeString(dt) == (dt.ms \div 3600000) * 100 + ((dt.ms \div 60000) % 60)

\* customEventTypes.find(et => et.id === id): <<>> (undefined) or <<the first match>>.
FindType(types, id) ==
    LET matches == SelectSeq(types, LAMBDA et : et.id = id)
    IN  IF matches = <<>> THEN <<>> ELSE <<Head(matches)>>

\* types.filter(et => et.id !== id)
WithoutType(types, id) == SelectSeq(types, LAMBDA et : et.id # id)

\* Mutant of Tick: the poller does not look into triggeredReminders.
TickWithoutMemory ==
    LET currentDateStr == ISODate(now, tz)
        currentTimeStr == TimeString(now)
    IN  IF /\ savedData # <<>>
           /\ activeReminder = <<>>
           /\ currentDateStr \in DOMAIN savedData[1].events
           /\ savedData[1].events[currentDateStr].time = currentTimeStr
           /\ FindType(savedData[1].customEventTypes,
                       savedData[1].events[currentDateStr].typeId) # <<>>
        THEN LET eventForToday == savedData[1].events[currentDateStr]
                 reminderId == <<currentDateStr, eventForToday.time>>
                 eventType == FindType(savedData[1].customEventTypes, eventForToday.typeId)[1]
             IN  /\ activeReminder' = <<[eventType |-> eventType, time |-> eventForToday.time,
                                          date |-> currentDateStr]>>
                 /\ triggeredReminders' = triggeredReminders \cup {reminderId}
                 /\ fired' = Append(fired, reminderId)
        ELSE UNCHANGED <<activeReminder, triggeredReminders, fired>>

\* One run of the reminder poller (the setInterval callback).  The reminder
\* id `${currentDateStr}-${time}` is the pair <<currentDateStr, time>>.  fired
\* records the ids the poller has activated a reminder for, in order.
Tick ==
    LET currentDateStr == ISODate(now, tz)
        currentTimeStr == TimeString(now)
    IN  IF /\ savedData # <<>>
           /\ activeReminder = <<>>
           /\ currentDateStr \in DOMAIN savedData[1].events
           /\ savedData[1].events[currentDateStr].time = currentTimeStr
           /\ <<currentDateStr, savedData[1].events[currentDateStr].time>>
                  \notin triggeredReminders
           /\ FindType(savedData[1].customEventTypes,
                       savedData[1].events[currentDateStr].typeId) # <<>>
        THEN LET eventForToday == savedData[1].events[currentDateStr]
                 reminderId == <<currentDateStr, eventForToday.time>>
                 eventType == FindType(savedData[1].customEventTypes, eventForToday.typeId)[1]
             IN  /\ activeReminder' = <<[eventType |-> eventType, time |-> eventForToday.time,
                                          date |-> currentDateStr]>>
                 /\ triggeredReminders' = triggeredReminders \cup {reminderId}
                 /\ fired' = Append(fired, reminderId)
        ELSE UNCHANGED <<activeReminder, triggeredReminders, fired>>

\* The poller runs every 10 seconds.
PollerTick ==
    /\ Tick
    /\ polled' = TRUE
    /\ UNCHANGED <<coreVars, tz, showPicker, isEditing, savedData, events,
                   customEventTypes, picker, now, idClock, data, saves>>

\* The host clock moves on by the poller's period.
Advance ==
    /\ now.ms - ClockAtLoad.ms < MaxAdvance * TickMs
    /\ now' = [now EXCEPT !.ms = @ + TickMs]
    /\ polled' = FALSE
    /\ UNCHANGED <<coreVars, tz, showPicker, isEditing, savedData, events,
                   customEventTypes, activeReminder, triggeredReminders, picker, idClock,
                   data, saves, fired>>

\* ReminderPopup onClose: setActiveReminder(null)
DismissReminder ==
    /\ activeReminder # <<>>
    /\ activeReminder' = <<>>
    /\ UNCHANGED <<coreVars, tz, showPicker, isEditing, savedData, events,
                   customEventTypes, triggeredReminders, picker, now, idClock, data,
                   saves, fired, polled>>

\* Mutant of HandleDeleteEvent: the saved schedule keeps the deleted event.
HandleDeleteEventStoreOnly(date) ==
    /\ savedData # <<>>
    /\ ~showPicker
    /\ date \in DOMAIN events
    /\ FindType(customEventTypes, events[date].typeId) # <<>>
    /\ events' = DeleteKey(events, date)
    /\ UNCHANGED <<coreVars, tz, showPicker, isEditing, savedData,
                   customEventTypes, activeReminder, triggeredReminders, picker,
                   now, idClock, data, saves, fired, polled>>

\* App.handleDeleteEvent(date): the delete button of an entry of "All Events".
\* The list is rendered once there is saved data, it cannot be opened from
\* under the picker, and it has an entry for the events whose type it finds.
HandleDeleteEvent(date) ==
    /\ savedData # <<>>
    /\ ~showPicker
    /\ date \in DOMAIN events
    /\ FindType(customEventTypes, events[date].typeId) # <<>>
    /\ LET newEvents == DeleteKey(events, date)
       IN  /\ events' = newEvents
           /\ savedData' = IF savedData # <<>>
                            THEN <<[savedData[1] EXCEPT !.events = newEvents]>>
                            ELSE savedData
    /\ UNCHANGED <<coreVars, tz, showPicker, isEditing, customEventTypes,
                   activeReminder, triggeredReminders, picker, now, idClock, data,
                   saves, fired, polled>>

\* Mutant of DeleteEventType: the assignments to the type stay in the store.
DeleteEventTypeOnly(id) ==
    /\ picker # <<>>
    /\ \E i \in DOMAIN customEventTypes : customEventTypes[i].id = id
    /\ customEventTypes' = WithoutType(customEventTypes, id)
    /\ savedData' =
         IF savedData # <<>>
         THEN <<[savedData[1] EXCEPT !.customEventTypes = WithoutType(@, id)]>>
         ELSE savedData
    /\ UNCHANGED <<coreVars, tz, showPicker, isEditing, events, activeReminder,
                   triggeredReminders, picker, now, idClock, data, saves, fired, polled>>

\* App.deleteEventType(id): the bin beside an event type in the picker
DeleteEventType(id) ==
    /\ picker # <<>>
    /\ \E i \in DOMAIN customEventTypes : customEventTypes[i].id = id
    /\ LET kept == {d \in DOMAIN events : events[d].typeId # id}
           newEvents == [d \in kept |-> events[d]]
       IN  /\ customEventTypes' = WithoutType(customEventTypes, id)
           /\ events' = newEvents
           /\ savedData' =
                IF savedData # <<>>
                THEN <<[savedData[1] EXCEPT
                          !.events = newEvents,
                          !.customEventTypes = WithoutType(@, id)]>>
                ELSE savedData
    /\ UNCHANGED <<coreVars, tz, showPicker, isEditing, activeReminder,
                   triggeredReminders, picker, now, idClock, data, saves, fired, polled>>

-----------------------------------------------------------------------------
(* The settings fields of the picker: the user opens the picker, types into  *)
(* the number fields, saves a first schedule, and opens the picker again on *)
(* it or on a new one.                                                      *)

\* What the user types into the "Every" field: nothing, 0, -3, abc, 2, 1.5.
IntervalTexts ==
    { <<>>, <<"0">>, <<"-", "3">>, <<"a", "b", "c">>, <<"2">>, <<"1", ".", "5">> }

\* What the user types into the "On day" field: nothing, 0, -5, 45, 31.
OnDayTexts == { <<>>, <<"0">>, <<"-", "5">>, <<"4", "5">>, <<"3", "1">> }

\* The schedule ends two days after today (2024-01-15), or has no end.
EndDateValues == {20240117, NoDate}

\* The month in view is at most MaxMonthsAway months after the month of the clock.
MonthsAway(p) ==
    (getFullYear(p.currentDate) * 12 + getMonth(p.currentDate))
        - (getFullYear(now) * 12 + getMonth(now))

\* What is edited in the first session only.
FirstSessionEdits ==
    \/ \E freq \in {"weekly", "monthly", "yearly"} : SelectFrequency(freq)
    \/ ToggleWeeklyDay(3)
    \/ \E t \in {"onDay", "onThe"} : SetMonthlyType(t)
    \/ \E txt \in OnDayTexts : MonthlyOnDayChange(txt)
    \/ \E txt \in {<<"l", "a", "s", "t">>, <<"2">>} : OnTheWeekChange(txt)
    \/ OnTheDayChange(<<"5">>)
    \/ \E v \in EndDateValues : HandleDateChange("endDate", v)
    \/ \E offset \in {-1, 1} :
          /\ picker # <<>>
          /\ MonthsAway(picker[1]) + offset \in 0..MaxMonthsAway
          /\ ChangeMonth(offset)
    \/ picker # <<>> /\ picker[1].settings.endDate # NoDate /\ PickerSave

NextSettings ==
    \/ HandleCreateNew
    \/ HandleEdit
    \/ ClosePicker
    \/ \E txt \in IntervalTexts : HandleIntervalChange(txt)
    \/ savedData = <<>> /\ FirstSessionEdits

\* The core is idle: its variables keep the values of a call not yet made.
InitApp == InitWith({MkDaily(1, NoDate, NoDate)})

SpecSettings == InitApp /\ [][NextSettings]_vars

-----------------------------------------------------------------------------
(* Attaching events in the picker: the user gives the schedule an end date,  *)
(* adds event types, assigns them to all dates or to days of the calendar,  *)
(* and saves.                                                               *)

\* One picker session up to its save, on a host at UTC.
NextAssign ==
    \/ savedData = <<>> /\ HandleCreateNew
    \/ ClosePicker
    \/ \E v \in EndDateValues : HandleDateChange("endDate", v)
    \/ \E sugg \in {"Meeting"} : HandleAddSuggestion(sugg)
    \/ \E title \in {" ", " Gym "} : HandleAddCustom(title)
    \/ \E mode \in {"all", "individual"} : SetEventMode(mode)
    \/ \E value \in 0..MaxTypes : SetMasterType(value)
    \/ \E time \in {1030} : SetMasterTime(time)
    \/ \E day \in {16, 20} : HandleDayClick(day)
    \/ \E id \in 1..MaxTypes : HandleAssignEvent(id)
    \/ \E time \in {1030} : HandleIndividualTimeChange(time)
    \/ HandleRemoveEvent
    \/ picker # <<>> /\ picker[1].settings.endDate # NoDate /\ PickerSave

InitAssign == InitApp /\ tz = 0

SpecAssign == InitAssign /\ [][NextAssign]_vars

-----------------------------------------------------------------------------
(* The reminder poller beside the picker: the user saves schedules whose    *)
(* dates all carry the master event, deletes events, and dismisses          *)
(* reminders, while the clock runs from 08:59:50 to 09:01:00.               *)

NextPoll ==
    \/ HandleCreateNew
    \/ ClosePicker
    \/ HandleDateChange("endDate", 20240117)
    \/ HandleAddSuggestion("Meeting")
    \/ SetEventMode("all")
    \/ \E value \in 1..MaxTypes : SetMasterType(value)
    \/ SetMasterTime(901)
    \/ picker # <<>> /\ picker[1].settings.endDate # NoDate /\ PickerSave
    \/ PollerTick
    \/ Advance
    \/ DismissReminder
    \/ \E date \in {20240115} : HandleDeleteEvent(date)

SpecPoll == InitAssign /\ [][NextPoll]_vars

-----------------------------------------------------------------------------
(* Schedules saved one after the other: the user saves a schedule with its  *)
(* events, opens the picker again on a new schedule or on the last one,     *)
(* changes the end date, assigns and removes events, saves again, and       *)
(* deletes events from the list.                                            *)

\* One or two days after today (2024-01-15).
LaterEndDates == {20240116, 20240117}

NextApp ==
    \/ HandleCreateNew
    \/ HandleEdit
    \/ ClosePicker
    \/ \E v \in LaterEndDates : HandleDateChange("endDate", v)
    \/ HandleAddSuggestion("Meeting")
    \/ \E mode \in {"all", "individual"} : SetEventMode(mode)
    \/ \E value \in 1..MaxTypes : SetMasterType(value)
    \/ SetMasterTime(901)
    \/ HandleDayClick(20)
    \/ \E id \in 1..MaxTypes : HandleAssignEvent(id)
    \/ HandleRemoveEvent
    \/ picker # <<>> /\ picker[1].settings.endDate # NoDate /\ PickerSave
    \/ \E date \in {20240117} : HandleDeleteEvent(date)

SpecApp == InitAssign /\ [][NextApp]_vars

-----------------------------------------------------------------------------
(* Reminders falling due: the user assigns an event to today in the         *)
(* calendar and saves, while the poller runs at every reading of the clock  *)
(* (every 10 seconds) from 08:59:50 to 09:01:00.                            *)

\* Hosts: New York (UTC-5), UTC, India (UTC+5:30), Sydney (UTC+10).
RemindHosts == {-300, 0, 330, 600}

InitRemind == InitOn({MkDaily(1, NoDate, NoDate)}, RemindHosts)

NextRemind ==
    \/ HandleCreateNew
    \/ ClosePicker
    \/ HandleDateChange("endDate", 20240117)
    \/ HandleAddSuggestion("Meeting")
    \/ HandleDayClick(15)
    \/ \E id \in 1..MaxTypes : HandleAssignEvent(id)
    \/ HandleIndividualTimeChange(901)
    \/ picker # <<>> /\ picker[1].settings.endDate # NoDate /\ PickerSave
    \/ PollerTick
    \/ polled /\ Advance
    \/ DismissReminder

SpecRemind == InitRemind /\ [][NextRemind]_vars

-----------------------------------------------------------------------------
(* The event-type registry and the event store: the user adds and deletes   *)
(* event types, assigns them to days of the calendar, saves a first         *)
(* schedule, edits it and saves again, and deletes events from the list.    *)

NextTypes ==
    \/ savedData = <<>> /\ HandleCreateNew
    \/ HandleEdit
    \/ ClosePicker
    \/ HandleDateChange("endDate", 20240117)
    \/ \E sugg \in {"Meeting", "Birthday"} : HandleAddSuggestion(sugg)
    \/ \E day \in {16, 20} : HandleDayClick(day)
    \/ \E id \in 1..MaxTypes : HandleAssignEvent(id)
    \/ picker # <<>> /\ picker[1].settings.endDate # NoDate /\ PickerSave
    \/ HandleDeleteEvent(20240116)
    \/ \E id \in 1..MaxTypes : DeleteEventType(id)

SpecTypes == InitAssign /\ [][NextTypes]_vars

-----------------------------------------------------------------------------
(* Vocabulary of the properties: calendar days are day counts.              *)

\* The calendar day a date string denotes.
DayOf(str) == DaysFromCivil(str \div 10000, ((str \div 100) % 100) - 1, str % 100)

WeekdayOf(d) == (d + 4) % 7
SundayOf(d) == d - WeekdayOf(d)
MonthIndexOf(d) == CivilFromDays(d).y * 12 + CivilFromDays(d).m

StartDay == DayOf(settings.startDate)

\* effectiveEndDate: endDate when given, otherwise Jan 1 of (start year + 5).
EffectiveEndDay ==
    IF settings.endDate # NoDate
    THEN DayOf(settings.endDate)
    ELSE DaysFromCivil(CivilFromDays(StartDay).y + 5, 0, 1)

ResultStrings == {result[i] : i \in DOMAIN result}
ResultDays == {DayOf(result[i]) : i \in DOMAIN result}
DateStrings == {dates[i] : i \in DOMAIN dates}

\* The call has returned from the loop of a supported frequency.
Returned ==
    /\ pc = "done"
    /\ settings.startDate # NoDate
    /\ settings.frequency \in Frequencies

\* The loop ended on the iteration cap, the cursor still within the end date.
CapBound ==
    /\ iterations >= maxIterations
    /\ DateLE(current, finalEndDate)

\* The days of month (y, m) that are the week-th (or last) weekday `day`.
OrdinalWeekday(y, m, week, day) ==
    LET first == DaysFromCivil(y, m, 1)
        final == MakeDate(y, m + 1, 1).day - 1
    IN  { d \in first..final :
            /\ WeekdayOf(d) = day
            /\ IF week = last THEN d + 7 > final
                              ELSE (d - first) \div 7 + 1 = week }

\* Day d is a date the recurrence rule of the settings denotes.
Matches(d) ==
    LET n == settings.interval
        c == CivilFromDays(d)
        s == CivilFromDays(StartDay)
    IN  /\ d >= StartDay
        /\ CASE settings.frequency = "daily" -> (d - StartDay) % n = 0
             [] settings.frequency = "weekly" ->
                    /\ settings.weeklyDays[WeekdayOf(d)]
                    /\ ((SundayOf(d) - SundayOf(StartDay)) \div 7) % n = 0
             [] settings.frequency = "monthly" ->
                    /\ (MonthIndexOf(d) - MonthIndexOf(StartDay)) % n = 0
                    /\ IF settings.monthlyType = "onDay"
                       THEN c.d = settings.monthlyOnDay
                       ELSE d \in OrdinalWeekday(c.y, c.m, settings.monthlyOnThe.week,
                                                 settings.monthlyOnThe.day)
             [] settings.frequency = "yearly" ->
                    /\ c.m = s.m /\ c.d = s.d
                    /\ (c.y - s.y) % n = 0
             [] OTHER -> FALSE

-----------------------------------------------------------------------------
(* C1: with interval >= 1, every returned date string denotes a calendar    *)
(* date d with startDate <= d <= effectiveEndDate.                          *)
C1_DatesWithinBounds ==
    (Returned /\ settings.interval >= 1) =>
        \A i \in DOMAIN result :
            StartDay <= DayOf(result[i]) /\ DayOf(result[i]) <= EffectiveEndDay

PcRank(p) == CASE p = "start" -> 0 [] p = "loop" -> 1 [] OTHER -> 2

(* C3: the call always returns: every step either takes one more loop pass *)
(* or moves on to the next part of the function (so no run is endless), at  *)
(* most maxIterations passes are taken, a pass is taken only while the      *)
(* cursor has not passed effectiveEndDate, and once it has passed the only  *)
(* step is the return.                                                      *)
C3_TerminatesWithinCap ==
    [][ /\ \/ PcRank(pc') > PcRank(pc)
           \/ PcRank(pc') = PcRank(pc) /\ iterations' = iterations + 1
        /\ iterations' <= maxIterations
        /\ iterations' # iterations => DateLE(current, finalEndDate)
        /\ (pc = "loop" /\ ~DateLE(current, finalEndDate)) => pc' = "done" ]_vars

\* A walk was cut by the cap with a cursor that does not move (interval 0).
C3_Witness ==
    /\ pc = "done" /\ CapBound
    /\ settings.interval = 0
    /\ current = ParseLocal(settings.startDate)

(* C4: daily with interval n >= 1 returns exactly the dates startDate + k*n *)
(* days (k = 0, 1, ...) that are <= effectiveEndDate, when the cap does not *)
(* bind.                                                                    *)
C4_DailyExact ==
    (Returned /\ settings.frequency = "daily" /\ settings.interval >= 1 /\ ~CapBound) =>
        ResultDays = {d \in StartDay..EffectiveEndDay :
                        (d - StartDay) % settings.interval = 0}

(* C5: weekly with interval n >= 1 returns exactly the dates in             *)
(* [startDate, effectiveEndDate] on a selected weekday whose Sunday-started *)
(* week lies k*n weeks after the week of startDate.                         *)
C5_WeeklyExact ==
    (Returned /\ settings.frequency = "weekly" /\ settings.interval >= 1 /\ ~CapBound) =>
        ResultDays = {d \in StartDay..EffectiveEndDay :
                        /\ settings.weeklyDays[WeekdayOf(d)]
                        /\ ((SundayOf(d) - SundayOf(StartDay)) \div 7)
                               % settings.interval = 0}

(* C6: a monthly onThe pass adds the week-th (or last) occurrence of the    *)
(* target weekday of the cursor's month when it lies within                 *)
(* [startDate, effectiveEndDate], and adds nothing otherwise.               *)
C6_OrdinalPerMonth ==
    [][ ( /\ pc = "loop"
          /\ iterations' = iterations + 1
          /\ settings.frequency = "monthly"
          /\ settings.monthlyType = "onThe"
          /\ settings.interval >= 1 ) =>
        LET c   == CivilFromDays(current.day)
            occ == OrdinalWeekday(c.y, c.m, settings.monthlyOnThe.week,
                                  settings.monthlyOnThe.day)
            inb == {d \in occ : StartDay <= d /\ d <= EffectiveEndDay}
        IN  {dates'[i] : i \in DOMAIN dates'} =
                DateStrings \cup {DateString(d) : d \in inb} ]_vars

(* C7: yearly with interval n >= 1 returns exactly the anniversaries        *)
(* (startYear + k*n, start month, start day) within                         *)
(* [startDate, effectiveEndDate].                                           *)
C7_YearlyExact ==
    (Returned /\ settings.frequency = "yearly" /\ settings.interval >= 1 /\ ~CapBound) =>
        LET s == CivilFromDays(StartDay)
        IN  ResultDays = {d \in StartDay..EffectiveEndDay :
                            LET c == CivilFromDays(d)
                            IN  /\ c.m = s.m /\ c.d = s.d
                                /\ (c.y - s.y) % settings.interval = 0}

(* C8: the upper bound is inclusive: a matching date equal to               *)
(* effectiveEndDate (endDate, or Jan 1 of start year + 5 without one) is in *)
(* the result, and no later date is.                                        *)
C8_EndInclusive ==
    (Returned /\ settings.interval >= 1 /\ ~CapBound) =>
        /\ Matches(EffectiveEndDay) => DateString(EffectiveEndDay) \in ResultStrings
        /\ \A i \in DOMAIN result : DayOf(result[i]) <= EffectiveEndDay

\* The walk continued without the cap, for at most `fuel` further passes.
RECURSIVE UncappedWalk(_, _, _, _, _, _, _)
UncappedWalk(s, off, fin, it, cur, ds, fuel) ==
    IF ~DateLE(cur, fin) \/ fuel = 0
    THEN [dates |-> ds, current |-> cur]
    ELSE LET st == StepOf(s, off, fin, it + 1, cur, ds)
         IN  UncappedWalk(s, off, fin, it + 1, st.current, st.dates, fuel - 1)

(* C9: a pass collects at most one date (seven for weekly) and at most      *)
(* maxIterations passes are taken, so at most 2000 dates (14000 for weekly) *)
(* are returned; when the cap is reached before the cursor passes           *)
(* effectiveEndDate, the result is exactly the dates matched in those       *)
(* passes, and with interval >= 1 it is a chronological prefix of what the  *)
(* walk without the cap returns.                                            *)
C9_CappedPrefix ==
    /\ iterations <= maxIterations
    /\ Len(dates) <= iterations * (IF settings.frequency = "weekly" THEN 7 ELSE 1)
    /\ (Returned /\ CapBound) =>
        /\ ResultStrings = DateStrings
        /\ Len(result) = Len(dates)
        /\ Len(result) <= IF settings.frequency = "weekly"
                          THEN 7 * maxIterations ELSE maxIterations
        /\ settings.interval >= 1 =>
             LET rest == UncappedWalk(settings, tz, finalEndDate, iterations,
                                      current, dates, MaxExtra)
                 uncapped == {rest.dates[i] : i \in DOMAIN rest.dates}
             IN  /\ ~DateLE(rest.current, finalEndDate)
                 /\ ResultStrings \subseteq uncapped
                 /\ \A u \in uncapped \ ResultStrings :
                        \A i \in DOMAIN result : DayOf(result[i]) < DayOf(u)

\* A daily walk was cut by the cap with 2000 dates while the end date was
\* still ahead of the cursor.
C9_Witness ==
    /\ Returned /\ CapBound
    /\ settings.frequency = "daily" /\ settings.interval = 1
    /\ Len(result) = maxIterations
    /\ current.day < DayOf(settings.endDate)

(* C10: with an empty or null startDate the call returns the empty list at  *)
(* once: the loop is never entered and nothing is collected.                *)
C10_NoStartReturnsEmpty ==
    settings.startDate = NoDate =>
        /\ pc \in {"start", "done"}
        /\ iterations = 0
        /\ dates = <<>>
        /\ result = <<>>

\* The call returned for a cleared start date, with an end date set and a
\* frequency other than the default.
C10_Witness ==
    /\ pc = "done"
    /\ settings.startDate = NoDate
    /\ settings.endDate # NoDate
    /\ settings.frequency = "monthly"
    /\ settings.monthlyType = "onThe"

(* C11: calculateRecurringDates never raises: whatever the settings value,  *)
(* no pass leaves the function by an exception, and once returned the       *)
(* result is a list of date strings.                                        *)
C11_NeverThrows ==
    /\ pc # "threw"
    /\ ~Threw(dates)
    /\ pc = "done" => \A i \in DOMAIN result : result[i] # RangeError /\ result[i] > 0

\* A monthly onDay walk with a NaN day of month has taken passes, its
\* candidate an Invalid Date each time, and returned.
C11_Witness ==
    /\ pc = "done"
    /\ settings.frequency = "monthly" /\ settings.monthlyType = "onDay"
    /\ settings.monthlyOnDay = NaN
    /\ iterations >= 3
    /\ ~IsValidDate(MonthDate(settings, current)[1])
    /\ result = <<>>

(* C12: the expansion works on local calendar dates, whatever the host's    *)
(* UTC offset: the strings a pass collects are the YYYY-MM-DD of the local  *)
(* calendar dates it matched, which are the strings the same pass collects  *)
(* on a host at UTC, so that every host returns the same list for the same  *)
(* settings.                                                                *)
C12_HostIndependent ==
    [][ ( /\ pc = "loop"
          /\ iterations' = iterations + 1
          /\ settings.frequency \in Frequencies ) =>
        dates' = StepOf(settings, 0, finalEndDate, iterations', current, dates).dates ]_vars

\* The length of the month the day d lies in.
MonthLengthOf(d) ==
    LET c == CivilFromDays(d)
    IN  DaysFromCivil(c.y + (c.m + 1) \div 12, (c.m + 1) % 12, 1) - DaysFromCivil(c.y, c.m, 1)

(* C18: a monthly pass with interval n >= 1 leaves the cursor on day 1 of   *)
(* the month exactly n months after the month it was in, whatever its day   *)
(* of month, so the months visited are the start month plus k*n months.     *)
C18_MonthlyAdvance ==
    [][ ( /\ pc = "loop"
          /\ iterations' = iterations + 1
          /\ settings.frequency = "monthly"
          /\ settings.interval >= 1 ) =>
        /\ MonthIndexOf(current'.day) = MonthIndexOf(current.day) + settings.interval
        /\ CivilFromDays(current'.day).d = 1 ]_vars

(* C19: in a monthly onDay pass whose month has L days and monthlyOnDay D   *)
(* > L, the candidate is day D - L of the following month: the pass adds    *)
(* that date when it lies within [startDate, effectiveEndDate] and nothing  *)
(* otherwise (no clamping to day L, no skipping).                           *)
C19_OnDayRollsOver ==
    [][ ( /\ pc = "loop"
          /\ iterations' = iterations + 1
          /\ settings.frequency = "monthly"
          /\ settings.monthlyType = "onDay"
          /\ settings.interval >= 1
          /\ settings.monthlyOnDay > MonthLengthOf(current.day) ) =>
        LET c     == CivilFromDays(current.day)
            L     == MonthLengthOf(current.day)
            cand  == DaysFromCivil(c.y, c.m, 1) + L + (settings.monthlyOnDay - L) - 1
            inb   == StartDay <= cand /\ cand <= EffectiveEndDay
        IN  /\ CivilFromDays(cand).d = settings.monthlyOnDay - L
            /\ {dates'[i] : i \in DOMAIN dates'} =
                  IF inb THEN DateStrings \cup {DateString(cand)} ELSE DateStrings ]_vars

(* C13: in every reachable state of the picker (default settings, settings  *)
(* reloaded from a previous save, any sequence of interval edits) the       *)
(* interval is an integer >= 1, and so is the interval of every settings    *)
(* value the expansion has been computed for at a save.                     *)
C13_IntervalAtLeastOne ==
    /\ picker # <<>> =>
          picker[1].settings.interval # NaN /\ picker[1].settings.interval >= 1
    /\ data # <<>> =>
          data[1].settings.interval # NaN /\ data[1].settings.interval >= 1

\* The picker was re-opened on saved settings whose interval had been typed,
\* and the field was then emptied.
C13_Witness ==
    /\ picker # <<>> /\ isEditing
    /\ savedData # <<>> /\ savedData[1].settings.interval = 2
    /\ picker[1].settings.interval = 1

(* C20: in every reachable state of the picker settings.monthlyOnDay is an  *)
(* integer in 1..31, and so it is in every settings value handed to the     *)
(* expansion at a save.                                                     *)
C20_MonthlyOnDayInRange ==
    /\ picker # <<>> => picker[1].settings.monthlyOnDay \in 1..31
    /\ data # <<>> => data[1].settings.monthlyOnDay \in 1..31

\* The picker was saved in 'all' mode with a master event type selected.
SavedInAllMode ==
    /\ data # <<>>
    /\ data[2].eventMode = "all"
    /\ data[2].masterEvent.typeId # NoType

(* C15: when the picker is saved in 'all' mode with a master event type     *)
(* selected, the keys of the event map handed to onSave are exactly the     *)
(* dates of the expansion of the saved settings, and every one of them      *)
(* carries the master typeId and the master time.                           *)
C15_AllModeCoversExpansion ==
    SavedInAllMode =>
        /\ data[1].recurringDates = calculateRecurringDates(data[1].settings, tz)
        /\ DOMAIN data[1].events = Elements(data[1].recurringDates)
        /\ \A d \in DOMAIN data[1].events :
              data[1].events[d] = [typeId |-> data[2].masterEvent.typeId,
                                   time |-> data[2].masterEvent.time]

\* A save in 'all' mode over a non-empty expansion, with a master time the
\* user has set; App has stored the event map.
C15_Witness ==
    /\ SavedInAllMode
    /\ data[1].recurringDates # <<>>
    /\ data[2].masterEvent.time = 1030
    /\ savedData # <<>>
    /\ DOMAIN savedData[1].events = Elements(data[1].recurringDates)

(* C16: in both assignment modes, every date key of the event map the       *)
(* picker hands to onSave is a date of calculateRecurringDates(settings)    *)
(* for the settings being saved.                                            *)
C16_EventsOnlyOnExpansion ==
    data # <<>> =>
        DOMAIN data[1].events \subseteq
            Elements(calculateRecurringDates(data[1].settings, tz))

\* The reminder id of the clock's date and minute.
ReminderIdNow == <<ISODate(now, tz), TimeString(now)>>

(* C17: the poller activates a reminder for a (date, time-of-day) pair at   *)
(* most once: the sequence of pairs it has fired for holds no pair twice,   *)
(* and every pair it has fired for is remembered in triggeredReminders.     *)
C17_FiresAtMostOnce ==
    /\ \A i, j \in DOMAIN fired : i # j => fired[i] # fired[j]
    /\ \A i \in DOMAIN fired : fired[i] \in triggeredReminders

\* The reminder of this minute has fired and was dismissed, and after a
\* second save today's event is due at this minute again.
C17_Witness ==
    /\ ReminderIdNow \in Elements(fired)
    /\ activeReminder = <<>>
    /\ saves >= 2
    /\ savedData # <<>>
    /\ ReminderIdNow[1] \in DOMAIN savedData[1].events
    /\ savedData[1].events[ReminderIdNow[1]].time = ReminderIdNow[2]
    /\ FindType(savedData[1].customEventTypes,
                savedData[1].events[ReminderIdNow[1]].typeId) # <<>>

\* The step is a save: App.handleSave has run.
IsSave == saves' = saves + 1

(* C14: after App.handleSave(data) the event store is the union by date key *)
(* of the assignments stored before and data.events, data.events winning on *)
(* a shared key; in particular every date that had an assignment before the *)
(* save still has one.                                                      *)
C14_SaveMergesEvents ==
    [][IsSave =>
        /\ DOMAIN events' = (DOMAIN events) \cup (DOMAIN data'[1].events)
        /\ \A d \in DOMAIN data'[1].events : events'[d] = data'[1].events[d]
        /\ \A d \in (DOMAIN events) \ (DOMAIN data'[1].events) : events'[d] = events[d]
        /\ savedData'[1].events = events']_vars

\* After a second save, the store holds an assignment on a date that is
\* neither in the expansion of the saved settings nor in the saved events,
\* beside the assignments of that save.
C14_Witness ==
    /\ saves >= 2
    /\ DOMAIN data[1].events # {}
    /\ \E d \in DOMAIN events :
          /\ d \notin DOMAIN data[1].events
          /\ d \notin Elements(data[1].recurringDates)
    /\ \A d \in DOMAIN data[1].events : events[d] = data[1].events[d]

\* The local date of the clock as a date string.
LocalDateNow == DateString(now.day)

\* A saved assignment is due: its date key is the local date of the clock,
\* its time is the clock's minute, and its event type is in the saved registry.
DueNow ==
    /\ savedData # <<>>
    /\ LocalDateNow \in DOMAIN savedData[1].events
    /\ savedData[1].events[LocalDateNow].time = TimeString(now)
    /\ FindType(savedData[1].customEventTypes,
                savedData[1].events[LocalDateNow].typeId) # <<>>

(* C21: a saved assignment whose event type exists is notified when its     *)
(* date and time-of-day arrive: when the poller runs at a reading of the    *)
(* clock at which an assignment is due (local date and minute), the poller  *)
(* has activated a reminder for that date and time, at this run or at an    *)
(* earlier one.                                                             *)
C21_DueReminderFires ==
    [][(~polled /\ polled' /\ DueNow) =>
          <<LocalDateNow, TimeString(now)>> \in Elements(fired')]_vars

\* The ids of the event types of a registry.
IdsOf(types) == {types[i].id : i \in DOMAIN types}

\* The ids that the step removes from the registry.
DeletedIds == IdsOf(customEventTypes) \ IdsOf(customEventTypes')

\* The step is a deleteEventType: only it takes a type out of the registry.
IsDeleteType == Len(customEventTypes') < Len(customEventTypes)

(* C22: immediately after deleteEventType(id) the registry and               *)
(* savedData.customEventTypes hold no type with that id and every type with *)
(* another id, neither the event store nor savedData.events holds an        *)
(* assignment to id, and every assignment to another type is unchanged.     *)
C22_DeleteTypeFrame ==
    [][IsDeleteType =>
        /\ Cardinality(DeletedIds) = 1
        /\ customEventTypes' =
              SelectSeq(customEventTypes, LAMBDA et : et.id \notin DeletedIds)
        /\ savedData # <<>> =>
              /\ savedData' # <<>>
              /\ savedData'[1].customEventTypes =
                    SelectSeq(savedData[1].customEventTypes,
                              LAMBDA et : et.id \notin DeletedIds)
              /\ savedData'[1].events = events'
        /\ DOMAIN events' = {d \in DOMAIN events : events[d].typeId \notin DeletedIds}
        /\ \A d \in DOMAIN events' : events'[d] = events[d]]_vars

\* An event type has been deleted while the store held an assignment to it
\* and one to another type: the saved registry has lost a type that the last
\* save handed over, and an assignment of the store is gone while another,
\* to a type still in the registry, is in the store.
C22_Witness ==
    /\ data # <<>>
    /\ savedData # <<>>
    /\ Len(savedData[1].customEventTypes) < Len(data[1].customEventTypes)
    /\ \E d \in DOMAIN data[1].events :
          /\ d \notin DOMAIN events
          /\ data[1].events[d].typeId \notin IdsOf(customEventTypes)
    /\ \E d \in DOMAIN events : events[d].typeId \in IdsOf(customEventTypes)

(* C24: in every reachable state every assignment in the event store has a  *)
(* typeId that is the id of a type in the event-type registry.              *)
C24_TypesInRegistry ==
    \A d \in DOMAIN events : events[d].typeId \in IdsOf(customEventTypes)

\* The dates whose assignment the user has removed in the open picker: in
\* edit mode the draft starts as a copy of the event store, so these are the
\* dates of the store that the draft no longer has.
RemovedInEdit ==
    IF picker # <<>> /\ isEditing
    THEN (DOMAIN events) \ (DOMAIN picker[1].draftEvents)
    ELSE {}

(* C23: when the picker was opened in edit mode, the user removed the        *)
(* assignment of a date with 'Remove Event' and saves in individual mode,   *)
(* that date has no assignment in the event store after the save.           *)
C23_RemovedStaysRemoved ==
    [][(IsSave /\ picker # <<>> /\ picker[1].eventMode = "individual") =>
          \A d \in RemovedInEdit : d \notin DOMAIN events']_vars

(* C25: whenever a schedule has been saved, the events of the saved         *)
(* schedule (which the reminder poller reads) are the event store (which    *)
(* the All Events list reads): the save, the deletion of an event and the   *)
(* deletion of an event type leave the two maps identical.                  *)
C25_SavedEventsAreStore ==
    savedData # <<>> => savedData[1].events = events

\* A saved schedule whose store still has an assignment after an event or an
\* event type of the last save was deleted.
C25_Witness ==
    /\ savedData # <<>>
    /\ data # <<>>
    /\ events # NoEvents
    /\ \E d \in DOMAIN data[1].events : d \notin DOMAIN events
    /\ savedData[1].events = events

(* C26: without an end date and with an interval of at least 1, the cap of  *)
(* 2000 passes never binds, for every frequency and start date: the loop    *)
(* ends because the cursor has passed Jan 1 of the start year + 5, and a    *)
(* daily schedule with interval 1 takes at most 1828 passes.                *)
C26_DefaultHorizonWithinCap ==
    (/\ pc \in {"loop", "done"}
     /\ settings.startDate # NoDate
     /\ settings.endDate = NoDate
     /\ settings.interval >= 1)
       => /\ ~CapBound
          /\ pc = "done" /\ settings.frequency \in Frequencies
                => ~DateLE(current, finalEndDate)
          /\ settings.frequency = "daily" /\ settings.interval = 1
                => iterations <= 1828


====
